---- MODULE Spec2Model ----
(***************************************************************************)
(* Verification model of the OpenBook persistence and virtual-list design  *)
(* code: useDebouncedLocalStorage, LocalStorageQueue, the viewport         *)
(* windower, VirtualMessageList, MessageHeightCache, the IndexedDB         *)
(* migration and SpacesProvider, useInterval, WorkerPool and the markdown  *)
(* cache.                                                                  *)
(*                                                                         *)
(* Each subsystem has its own specification (SpecHook, SpecQueue,          *)
(* SpecWindow, SpecList, SpecRows, SpecHeights, SpecCache, SpecCallers,    *)
(* SpecMigration, SpecSpaces, SpecInterval, SpecPool, SpecMarkdown).  A    *)
(* specification leaves the variables of the other subsystems at their     *)
(* idle values.                                                            *)
(***************************************************************************)
EXTENDS Integers, Sequences, FiniteSets, TLC

\* ------------------------------------------------------------------------
\* Bounds of the model
\* ------------------------------------------------------------------------

\* the debounce delay D of the hook, in clock ticks (`delay` parameter)
DelayTicks == 3

\* saturation cap of the call / setItem counters
MaxCount == 3

\* payloads a caller can pass to setValue / add
Vals == {"a", "b"}

\* storage keys written through the queue
Keys == {"spaces", "settings"}

\* guard on the queue length (the queue holds at most one item per key)
MaxQueue == 3

\* periods without idle time after which a scheduled write counts as late
IdleTimeout == 2

\* inputs of computeWindow
MaxItems == 3

MaxHeight == 2

MaxScroll == 6

MaxView == 3

MaxOver == 2

\* messages of the list
MaxMsgs == 3

\* messages of a longer conversation (more rows than the overscan covers)
MaxRows == 7

\* the components that use the hook with the same key
Callers == {1, 2}

\* messages a conversation can grow to once older messages are loaded
MaxLoaded == MaxRows + 2

\* callers of migrateLocalStorageToIndexedDB (effects, tabs)
Invocations == {1, 2}

\* ids of the spaces
SpaceIds == {"s1", "s2"}

\* ids of the messages MarkdownRenderer renders
RenderedIds == {"m1", "m2"}

\* contents of a rendered message
MarkdownContents == {"cat", "dog", "bird"}

\* entries after which MarkdownRenderer deletes the oldest key
cacheLimit == 100

\* poolSize of the WorkerPool
PoolSize == 2

\* execute calls on the pool
MaxTasks == 4

Workers == 1 .. PoolSize

Tasks == 0 .. MaxTasks - 1

\* setInterval calls of one component
MaxIntervals == 4

\* delays passed to useInterval: << >> for null, << ms >> for a number
Delays == {<< >>, << 100 >>, << 1000 >>}

\* versions the content of a space goes through
MaxVersion == 2

\* ids of the messages whose heights are cached
MessageIds == {1, 2}

\* lengths of a message's content, in characters
ContentLengths == {100, 500, 600, 1000, 1200}

\* contentLength, hasCode and hasImages as estimate computes them:
\* message.content?.length || 0, message.content?.includes('```') and
\* message.parts?.some(p => p.type === 'image'); undefined is falsy
Features(hasContent, len, fence, hasParts, image) ==
    [length |-> IF hasContent THEN len ELSE 0,
     hasCode |-> hasContent /\ fence,
     hasImages |-> hasParts /\ image]

\* a message without content and without parts
MissingContent == Features(FALSE, 0, FALSE, FALSE, FALSE)

\* contents a message can have
CacheContents ==
    { Features(c, len, f, p, i) :
        c \in BOOLEAN, len \in ContentLengths, f \in BOOLEAN,
        p \in BOOLEAN, i \in BOOLEAN }

\* heights passed to set, in px
CacheHeights == {-50, 0, 120, 480}

\* heights the streaming message's content grows through, in px
StreamHeights == {100, 200, 300}

\* "near bottom" threshold of handleScroll, in px
nearBottomThreshold == 100

\* sizes a row can measure (getBoundingClientRect().height), in px
Sizes == {0, 100}

\* heights AutoSizer can give the list, in px
ListHeights == {200, 300}

\* granularity of user scroll positions, in px
ScrollStep == nearBottomThreshold

\* overscanCount={5} of the List
overscanCount == 5

\* default row height of getRowHeight / MessageHeightCache
defaultHeight == 200

\* the spec's maximum total delay, "e.g. 5 x D"
Dmax == 5 * DelayTicks

None == "none"

VARIABLES
    \* ---- useDebouncedLocalStorage (one hook instance, one key) ----
    hMounted,      \* the component using the hook is mounted
    storedValue,   \* React state `storedValue`
    hTimer,        \* ticks until the pending setTimeout fires, -1: no timer
    hPendingVal,   \* `storedValue` captured by the pending timer's closure
    lsItem,        \* localStorage entry of `key`: None or a JSON string
    hErrors,       \* console.error calls of the write's catch block
    \* history of the hook
    hCalls,        \* setValue calls since (re)mount, saturating
    hRapid,        \* every call so far came < DelayTicks after the previous
    hAllChanged,   \* every call so far passed a value different from state
    hGap,          \* ticks since the last setValue call, saturating
    hSetItems,     \* localStorage.setItem calls since the first setValue
    hLastArg,      \* argument of the last setItem call
    hLastEnq,      \* payload of the last setValue call (kept over unmount)
    hSinceChange,  \* ticks since the write effect last ran, saturating
    hWriteDelay,   \* hSinceChange at the moment of the last setItem call
    hAge,          \* ticks the oldest unwritten value has been pending
    hQuota,        \* some setItem call has thrown
    \* ---- LocalStorageQueue (the storageQueue singleton) ----
    queue,         \* `queue`: sequence of [key, value, priority] items
    processing,    \* `processing`
    idleCb,        \* the scheduled idle / timeout callback: << >> or <<item>>
    hasRIC,        \* 'requestIdleCallback' in window
    qStore,        \* localStorage: key -> None or JSON string
    qReports,      \* console.error calls of process()'s catch block
    \* history of the queue
    qLastAdd,      \* key -> value of the last add for the key
    qReplaced,     \* some add found an entry of its key in the queue
    qFailures,     \* setItem calls of the queue that have thrown, saturating
    qWait,         \* periods without idle time the scheduled callback has
                   \* waited through, saturating above IdleTimeout
    qSuperseded,   \* setItem has been called with a payload although a later
                   \* add for its key had been made before the call
    \* ---- Viewport Windower (computeWindow) ----
    wHeights,      \* heightOf: the heights of items 0 .. itemCount-1
    wScroll,       \* scrollOffset
    wView,         \* viewportHeight
    wOver,         \* overscanCount
    wRange,        \* the WindowRange returned: << >> before the call
    \* ---- VirtualMessageList ----
    messages,      \* the `messages` prop: sequence of message ids
    rowHeights,    \* rowHeights.current: index -> measured size, -1: absent
    scrollOffset,  \* scroll offset of the List
    listHeight,    \* height given to the List by AutoSizer
    isNearBottom,  \* React state `isNearBottom`
    \* history of the list
    lEvent,        \* the last event handled
    lPrevNear,     \* isNearBottom before the last event
    lAnchorShift,  \* last height correction above the anchor, while scrolled
                   \* at least the threshold away from the bottom: change of
                   \* the anchor's offset from the viewport top
    scrollToMessageId, \* the scrollToMessageId prop (0: undefined)
    lTargetLost,   \* the last event was an append that took the message of
                   \* scrollToMessageId out of the viewport, from a position
                   \* at least the threshold away from the bottom
    lStored,       \* the last event was a measurement and left its height in
                   \* rowHeights
    lRelayout,     \* the last event was a measurement that called
                   \* resetAfterIndex
    lRangeChanged, \* the last event was a measurement that changed the range
                   \* of visible rows
    lMoved,        \* the last event changed the scroll offset
    lPrevWithin    \* before the last event the viewport's bottom edge was
                   \* less than the threshold above the total height

hookVars == << hMounted, storedValue, hTimer, hPendingVal, lsItem, hErrors,
               hCalls, hRapid, hAllChanged, hGap, hSetItems, hLastArg,
               hLastEnq, hSinceChange, hWriteDelay, hAge, hQuota >>

queueVars == << queue, processing, idleCb, hasRIC, qStore, qReports,
                qLastAdd, qReplaced, qFailures, qWait, qSuperseded >>

windowVars == << wHeights, wScroll, wView, wOver, wRange >>

\* rendering of the rows of a longer conversation with a streaming message
VARIABLES
    isStreaming,       \* the isStreaming prop
    currentMessageId,  \* the currentMessageId prop (0: undefined)
    streamHeight,      \* height the streaming message's content has in the
                       \* DOM (getBoundingClientRect().height), in px
    mountedRows        \* indexes of the rows the List has rendered

streamVars == << isStreaming, currentMessageId, streamHeight, mountedRows >>

\* two components that use useDebouncedLocalStorage with the same key
VARIABLES
    iMounted,      \* the components that are mounted
    iStored,       \* storedValue of each component
    timers,        \* the browser's pending timeouts in the order they were
                   \* set: << component, ticks left, value to write >>
    keyItem,       \* localStorage item of the shared key
    wPhase,        \* "idle": no timeout pending; "one": one component has
                   \* changed its value since; "two": then the other component
                   \* has changed its value while the first timeout was
                   \* pending; "other": anything else happened since
    wWrites,       \* setItem calls since the phase left "idle"
    wLast,         \* the value of the latest change
    wThrew         \* a setItem call has thrown since the phase left "idle"

callerVars == << iMounted, iStored, timers, keyItem, wPhase, wWrites, wLast,
                 wThrew >>

\* MessageHeightCache and the messages it is asked about
VARIABLES
    cache,         \* the Map messageId -> height, a function on its keys
    content,       \* content of each message (length, code fence, image part)
    cStale,        \* ids whose content has changed since their last set
    cLastOp,       \* the last operation: << name, id, height >>
    cBefore        \* what estimate returned for the id of the last set, just
                   \* before that set

cacheVars == << cache, content, cStale, cLastOp, cBefore >>

listVars == << messages, rowHeights, scrollOffset, listHeight, isNearBottom,
               scrollToMessageId, lEvent, lPrevNear, lAnchorShift,
               lTargetLost, lStored, lRelayout, lRangeChanged,
               lMoved, lPrevWithin >>

\* a longer conversation to which older messages are prepended
VARIABLES
    idHeight       \* message id -> the height last measured for the message
                   \* (what a cache keyed by id would hold), 0: none

heightVars == << idHeight >>

\* migrateLocalStorageToIndexedDB, invoked by several callers
VARIABLES
    migrationComplete, \* localStorage 'indexeddb-migration-complete' is 'true'
    lsSpaces,          \* ids of the spaces in localStorage 'spaces'
    dbSpaces,          \* ids of the spaces in the IndexedDB store 'spaces'
    run,               \* per invocation: pc, the saveSpace calls not settled
                       \* yet, whether one has been rejected, and history:
                       \* whether the run began after the flag was set and
                       \* whether it has written to IndexedDB
    mCopies            \* runs that have written a space, saturating

migrationVars == << migrationComplete, lsSpaces, dbSpaces, run, mCopies >>

\* SpacesProvider over IndexedDB
VARIABLES
    spaces,        \* React state `spaces`: space id -> version of its content,
                   \* 0: the list has no such space
    isLoading,     \* React state `isLoading`
    db,            \* IndexedDB store 'spaces': id -> stored version, 0: none
    lsFallback,    \* localStorage 'spaces' read by the fallback: << >> if
                   \* absent, else << list >>
    saveTimer,     \* the pending save timeout: << >> or << the `spaces` its
                   \* closure captured >>
    sLoaded,       \* "pending", "ok" or "failed": outcome of getSpaces
    sLastSave,     \* "none", "ok" or "failed": outcome of the last save
    sDb0           \* the store's content when the provider mounted

spacesVars == << spaces, isLoading, db, lsFallback, saveTimer, sLoaded,
                sLastSave, sDb0 >>

\* one component that uses useInterval
VARIABLES
    uMounted,      \* the component is mounted
    delay,         \* the `delay` argument of the last render, as in Delays
    immediate,     \* the `immediate` argument of the last render
    intervals,     \* the browser's active intervals: [id, delay]
    cleanupId,     \* << id >> captured by the cleanup the interval effect
                   \* returned last, << >> if it returned none
    nextId,        \* the id the next setInterval returns
    uCalls,        \* calls of savedCallback.current, saturating
    uEvent         \* the last event

intervalVars == << uMounted, delay, immediate, intervals, cleanupId, nextId,
                  uCalls, uEvent >>

\* WorkerPool
VARIABLES
    workers,           \* this.workers, as a set of worker ids
    availableWorkers,  \* this.availableWorkers
    taskQueue,         \* this.taskQueue, the ids of its tasks
    taskId,            \* this.taskId
    currentTask,       \* worker -> << task >> stored on the worker object,
                       \* << >> if none
    inbox,             \* worker -> the messages posted to it that it has
                       \* not answered yet (task ids); the worker thread
    settled,           \* task -> calls of its resolve or reject so far
    answeredBy         \* task -> id in the response it was settled with,
                       \* -1 before

poolVars == << workers, availableWorkers, taskQueue, taskId, currentTask,
              inbox, settled, answeredBy >>

\* MarkdownRenderer and the module-level markdownCache
VARIABLES
    markdownCache,     \* the Map in insertion order: << key, value >> pairs
    mdProps,           \* << messageId, content >> of the component's last
                       \* render, << >> while it is not mounted
    processedContent   \* the value of the useMemo at the last render

markdownVars == << markdownCache, mdProps, processedContent >>

\* the subsystems below have one specification each
extraVars == << heightVars, migrationVars, spacesVars, intervalVars,
               poolVars, markdownVars >>

vars == << hookVars, queueVars, windowVars, listVars, streamVars, cacheVars,
          callerVars, extraVars >>

notHook ==
    << queueVars, windowVars, listVars, streamVars, cacheVars,
       callerVars,
       extraVars >>

notQueue ==
    << hookVars, windowVars, listVars, streamVars, cacheVars,
       callerVars,
       extraVars >>

notWindow ==
    << hookVars, queueVars, listVars, streamVars, cacheVars,
       callerVars,
       extraVars >>

notList ==
    << hookVars, queueVars, windowVars, streamVars, cacheVars,
       callerVars,
       extraVars >>

notRows == << hookVars, queueVars, windowVars, cacheVars, callerVars,
       extraVars >>

notCache ==
    << hookVars, queueVars, windowVars, listVars, streamVars, callerVars,
       extraVars >>

\* the variables the first specifications leave alone, as one tuple
baseVars == << hookVars, queueVars, windowVars, listVars, streamVars,
               cacheVars, callerVars >>

notHeights ==
    << hookVars, queueVars, windowVars, cacheVars, callerVars,
       migrationVars, spacesVars, intervalVars, poolVars, markdownVars >>

notMigration ==
    << baseVars, heightVars, spacesVars, intervalVars, poolVars,
       markdownVars >>

notSpaces ==
    << baseVars, heightVars, migrationVars, intervalVars, poolVars,
       markdownVars >>

notInterval ==
    << baseVars, heightVars, migrationVars, spacesVars, poolVars,
       markdownVars >>

notPool ==
    << baseVars, heightVars, migrationVars, spacesVars, intervalVars,
       markdownVars >>

notMarkdown ==
    << baseVars, heightVars, migrationVars, spacesVars, intervalVars,
       poolVars >>

notCallers ==
    << hookVars, queueVars, windowVars, listVars, streamVars, cacheVars,
       extraVars >>

\* ------------------------------------------------------------------------
\* Helpers
\* ------------------------------------------------------------------------

Sat(n, cap) == IF n >= cap THEN cap ELSE n + 1

\* JSON.stringify / JSON.parse of a payload
Stringify(v) == "json:" \o v

Parse(s) == CHOOSE v \in Vals : Stringify(v) = s

\* ------------------------------------------------------------------------
\* Idle values: what a subsystem's variables hold in the specifications of
\* the other subsystems
\* ------------------------------------------------------------------------

HookIdle ==
    /\ hMounted = FALSE
    /\ storedValue = None
    /\ hTimer = -1
    /\ hPendingVal = None
    /\ lsItem = None
    /\ hErrors = 0
    /\ hCalls = 0
    /\ hRapid = TRUE
    /\ hAllChanged = TRUE
    /\ hGap = 0
    /\ hSetItems = 0
    /\ hLastArg = None
    /\ hLastEnq = None
    /\ hSinceChange = 0
    /\ hWriteDelay = -1
    /\ hAge = 0
    /\ hQuota = FALSE

QueueIdle ==
    /\ queue = << >>
    /\ processing = FALSE
    /\ idleCb = << >>
    /\ hasRIC = TRUE
    /\ qStore = [k \in Keys |-> None]
    /\ qReports = 0
    /\ qLastAdd = [k \in Keys |-> None]
    /\ qReplaced = FALSE
    /\ qFailures = 0
    /\ qWait = 0
    /\ qSuperseded = FALSE

WindowIdle ==
    /\ wHeights = << >>
    /\ wScroll = 0
    /\ wView = 0
    /\ wOver = 0
    /\ wRange = << >>

CallersIdle ==
    /\ iMounted = {}
    /\ iStored = [c \in Callers |-> None]
    /\ timers = << >>
    /\ keyItem = None
    /\ wPhase = "idle"
    /\ wWrites = 0
    /\ wLast = None
    /\ wThrew = FALSE

\* a Map without entries
EmptyMap == [id \in {} |-> 0]

CacheIdle ==
    /\ cache = EmptyMap
    /\ content = [id \in MessageIds |-> [length |-> 0, hasCode |-> FALSE,
                                          hasImages |-> FALSE]]
    /\ cStale = {}
    /\ cLastOp = << "new", 0, 0 >>
    /\ cBefore = 0

StreamIdle ==
    /\ isStreaming = FALSE
    /\ currentMessageId = 0
    /\ streamHeight = 0
    /\ mountedRows = {}

ListIdle ==
    /\ messages = << >>
    /\ rowHeights = [i \in 0 .. MaxMsgs - 1 |-> -1]
    /\ scrollOffset = 0
    /\ listHeight = 0
    /\ isNearBottom = TRUE
    /\ lEvent = "init"
    /\ lPrevNear = TRUE
    /\ lAnchorShift = 0
    /\ scrollToMessageId = 0
    /\ lTargetLost = FALSE
    /\ lStored = FALSE
    /\ lRelayout = FALSE
    /\ lRangeChanged = FALSE
    /\ lMoved = FALSE
    /\ lPrevWithin = TRUE

HeightsIdle == idHeight = [id \in 1 .. MaxLoaded |-> 0]

\* an invocation that has not been made
IdleRun ==
    [pc |-> "idle", pending |-> {}, failed |-> FALSE, lateStart |-> FALSE,
     wrote |-> FALSE]

MigrationIdle ==
    /\ migrationComplete = FALSE
    /\ lsSpaces = {}
    /\ dbSpaces = {}
    /\ run = [i \in Invocations |-> IdleRun]
    /\ mCopies = 0

\* a list without spaces
NoSpaces == [id \in SpaceIds |-> 0]

SpacesIdle ==
    /\ spaces = NoSpaces
    /\ isLoading = TRUE
    /\ db = NoSpaces
    /\ lsFallback = << >>
    /\ saveTimer = << >>
    /\ sLoaded = "pending"
    /\ sLastSave = "none"
    /\ sDb0 = NoSpaces

IntervalIdle ==
    /\ uMounted = FALSE
    /\ delay = << >>
    /\ immediate = FALSE
    /\ intervals = {}
    /\ cleanupId = << >>
    /\ nextId = 1
    /\ uCalls = 0
    /\ uEvent = "init"

\* no pool has been constructed
PoolIdle ==
    /\ workers = {}
    /\ availableWorkers = << >>
    /\ taskQueue = << >>
    /\ taskId = 0
    /\ currentTask = [w \in Workers |-> << >>]
    /\ inbox = [w \in Workers |-> << >>]
    /\ settled = [t \in Tasks |-> 0]
    /\ answeredBy = [t \in Tasks |-> -1]

MarkdownIdle ==
    /\ markdownCache = << >>
    /\ mdProps = << >>
    /\ processedContent = ""

ExtraIdle ==
    /\ HeightsIdle /\ MigrationIdle /\ SpacesIdle /\ IntervalIdle
    /\ PoolIdle /\ MarkdownIdle

BaseIdle ==
    /\ HookIdle /\ QueueIdle /\ WindowIdle /\ CallersIdle /\ CacheIdle
    /\ StreamIdle /\ ListIdle

\* ------------------------------------------------------------------------
\* useDebouncedLocalStorage
\* ------------------------------------------------------------------------

\* useState initializer: the stored item if there is one, else initialValue
InitialState(item, initialValue) ==
    IF item # None THEN Parse(item) ELSE initialValue

\* the write effect's dependency check [key, storedValue, delay]: the effect
\* (and the cleanup before it) runs only when storedValue changed
EffectRuns(old, new) == old # new

\* a write effect that leaves a pending timer running instead of clearing it
RestartTimerKeepsPending(timer) == IF timer >= 0 THEN timer ELSE DelayTicks

\* a write effect whose timeout is one tick short of the delay
RestartTimerOneTickShort(timer) == DelayTicks - 1

\* clearTimeout of the pending timer followed by setTimeout(..., delay)
RestartTimer(timer) == DelayTicks

\* the effect's cleanup at unmount: clearTimeout(timeoutRef.current)
UnmountCleanup(timer) == -1

\* first render of the hook: state read from localStorage, effect has run
HookMounted ==
    /\ hMounted = TRUE
    /\ lsItem \in {None} \cup {Stringify(v) : v \in Vals}
    /\ \E iv \in Vals : storedValue = InitialState(lsItem, iv)
    /\ hTimer = RestartTimer(-1)
    /\ hPendingVal = storedValue
    /\ hErrors = 0
    /\ hCalls = 0
    /\ hRapid = TRUE
    /\ hAllChanged = TRUE
    /\ hGap = 0
    /\ hSetItems = 0
    /\ hLastArg = None
    /\ hLastEnq = None
    /\ hSinceChange = 0
    /\ hWriteDelay = -1
    /\ hAge = 0
    /\ hQuota = FALSE

\* setValue(v): setStoredValue, re-render, cleanup + effect if state changed
SetValue(v) ==
    /\ hMounted
    /\ storedValue' = v
    /\ IF EffectRuns(storedValue, v)
          THEN /\ hTimer' = RestartTimer(hTimer)
               /\ hPendingVal' = v
               /\ hSinceChange' = 0
               /\ hAge' = IF hTimer >= 0 THEN hAge ELSE 0
          ELSE UNCHANGED << hTimer, hPendingVal, hSinceChange, hAge >>
    /\ hCalls' = Sat(hCalls, MaxCount)
    /\ hRapid' = IF hCalls = 0 THEN TRUE ELSE hRapid /\ hGap < DelayTicks
    /\ hAllChanged' = ((hCalls = 0 \/ hAllChanged) /\ v # storedValue)
    /\ hGap' = 0
    /\ hSetItems' = IF hCalls = 0 THEN 0 ELSE hSetItems
    /\ hLastArg' = IF hCalls = 0 THEN None ELSE hLastArg
    /\ hLastEnq' = v
    /\ UNCHANGED << hMounted, lsItem, hErrors, hWriteDelay, hQuota >>
    /\ UNCHANGED notHook

\* one clock tick; a timer that is due fires before the clock moves on
Tick ==
    /\ hMounted
    /\ hTimer # 0
    /\ hTimer' = IF hTimer > 0 THEN hTimer - 1 ELSE hTimer
    /\ hGap' = Sat(hGap, DelayTicks)
    /\ hSinceChange' = Sat(hSinceChange, DelayTicks + 1)
    /\ hAge' = IF hTimer > 0 THEN Sat(hAge, Dmax + 1) ELSE hAge
    /\ UNCHANGED << hMounted, storedValue, hPendingVal, lsItem, hErrors,
                    hCalls, hRapid, hAllChanged, hSetItems, hLastArg,
                    hLastEnq, hWriteDelay, hQuota >>
    /\ UNCHANGED notHook

\* history kept by both outcomes of the timer callback
TimerFired ==
    /\ hTimer = 0
    /\ hTimer' = -1
    /\ hSetItems' = Sat(hSetItems, MaxCount)
    /\ hLastArg' = Stringify(hPendingVal)
    /\ hWriteDelay' = hSinceChange
    /\ hAge' = 0
    /\ UNCHANGED << hMounted, storedValue, hPendingVal, hCalls, hRapid,
                    hAllChanged, hGap, hLastEnq, hSinceChange >>
    /\ UNCHANGED notHook

\* the timer callback, setItem succeeds
TimerWrite ==
    /\ TimerFired
    /\ lsItem' = Stringify(hPendingVal)
    /\ UNCHANGED << hErrors, hQuota >>

\* the timer callback, setItem throws (quota exceeded): caught and logged
TimerWriteThrows ==
    /\ TimerFired
    /\ hErrors' = Sat(hErrors, MaxCount)
    /\ hQuota' = TRUE
    /\ UNCHANGED lsItem

\* the component unmounts: the effect's cleanup clears the timer
Unmount ==
    /\ hMounted
    /\ hMounted' = FALSE
    /\ hTimer' = UnmountCleanup(hTimer)
    /\ hAge' = 0
    /\ UNCHANGED << storedValue, hPendingVal, lsItem, hErrors, hCalls,
                    hRapid, hAllChanged, hGap, hSetItems, hLastArg,
                    hLastEnq, hSinceChange, hWriteDelay, hQuota >>
    /\ UNCHANGED notHook

InitHook ==
    /\ HookMounted
    /\ ExtraIdle
    /\ QueueIdle /\ WindowIdle /\ ListIdle /\ StreamIdle /\ CacheIdle
    /\ CallersIdle

NextHook ==
    \/ \E v \in Vals : SetValue(v)
    \/ Tick
    \/ TimerWrite
    \/ TimerWriteThrows
    \/ Unmount

SpecHook == InitHook /\ [][NextHook]_vars

\* ------------------------------------------------------------------------
\* Properties of useDebouncedLocalStorage
\* ------------------------------------------------------------------------

\* a burst of setValue calls, each made less than the delay after the
\* previous one, has ended: the hook is mounted and no timer is pending
BurstDone == hCalls >= 1 /\ hRapid /\ hMounted /\ hTimer = -1

\* C1 as stated: N setValue calls, each less than the delay after the
\* previous one and followed by no further call, cause exactly one
\* localStorage.setItem, and it carries the last payload.
C1_OneWritePerBurst ==
    BurstDone => (hSetItems = 1 /\ hLastArg = Stringify(hLastEnq))

\* C1 amended: the same for bursts in which every setValue call passes a
\* value different from the current state (a call with the unchanged value
\* re-runs no effect and so restarts no timer).
C1_OneWritePerChangingBurst ==
    (BurstDone /\ hAllChanged) =>
        (hSetItems = 1 /\ hLastArg = Stringify(hLastEnq))

C1_Witness ==
    /\ BurstDone
    /\ hAllChanged
    /\ hCalls >= 2
    /\ hSetItems = 1
    /\ lsItem = Stringify(hLastEnq)

\* C2: once nothing is pending any more, the store holds the last payload
\* enqueued, also when the write was still pending at unmount (setItem
\* failures set aside).
C2_NoLossOfLastValue ==
    (hLastEnq # None /\ hTimer = -1 /\ ~hQuota) =>
        lsItem = Stringify(hLastEnq)

\* C4 as stated: a value never stays unwritten for longer than Dmax, however
\* often setValue is called.
C4_FlushWithinDmax == hAge <= Dmax

\* C4 amended: every setItem call happens exactly the delay after the last
\* change of the value (or the mount); changes that keep coming faster than
\* the delay defer the write for as long as they continue.
C4_WriteExactlyDelayAfterLastChange == hWriteDelay \in {-1, DelayTicks}

C4_Witness ==
    /\ hWriteDelay = DelayTicks
    /\ hCalls >= 2
    /\ hRapid
    /\ hAllChanged
    /\ hSetItems = 1


\* ------------------------------------------------------------------------
\* LocalStorageQueue
\* ------------------------------------------------------------------------

Priorities == {"high", "normal", "low"}

Item(k, v, p) == [key |-> k, value |-> v, priority |-> p]

\* add() without the removal of the key's existing item
KeepKey(q, k) == q

\* this.queue.filter(item => item.key !== key)
RemoveKey(q, k) == SelectSeq(q, LAMBDA it : it.key # k)

WithPriority(q, p) == SelectSeq(q, LAMBDA it : it.priority = p)

\* this.queue.sort(by priorityOrder): Array.prototype.sort is stable
SortByPriority(q) ==
    WithPriority(q, "high") \o WithPriority(q, "normal") \o WithPriority(q, "low")

HasKey(q, k) == \E i \in DOMAIN q : q[i].key = k

\* new LocalStorageQueue() in a browser with or without requestIdleCallback
InitQueue ==
    /\ queue = << >>
    /\ processing = FALSE
    /\ idleCb = << >>
    /\ hasRIC \in BOOLEAN
    /\ qStore = [k \in Keys |-> None]
    /\ qReports = 0
    /\ qLastAdd = [k \in Keys |-> None]
    /\ qReplaced = FALSE
    /\ qFailures = 0
    /\ qWait = 0
    /\ qSuperseded = FALSE

\* one turn of process()'s while loop up to its await: shift the next item
\* and schedule its write, or leave the loop and clear `processing`
ProcessLoop(q) ==
    IF Len(q) > 0
       THEN /\ queue' = Tail(q)
            /\ idleCb' = << Head(q) >>
            /\ processing' = TRUE
       ELSE /\ queue' = q
            /\ idleCb' = << >>
            /\ processing' = FALSE

\* add(key, value, priority), with the synchronous start of process()
Add(k, v, p) ==
    /\ Len(queue) < MaxQueue
    /\ LET sorted == SortByPriority(Append(RemoveKey(queue, k), Item(k, v, p)))
       IN  IF ~processing
              THEN ProcessLoop(sorted)
              ELSE /\ queue' = sorted
                   /\ UNCHANGED << idleCb, processing >>
    /\ qLastAdd' = [qLastAdd EXCEPT ![k] = v]
    /\ qReplaced' = (qReplaced \/ HasKey(queue, k))
    /\ qWait' = IF processing THEN qWait ELSE 0
    /\ UNCHANGED << hasRIC, qStore, qReports, qFailures, qSuperseded >>
    /\ UNCHANGED notQueue

\* the idle (or setTimeout 0) callback: setItem succeeds, resolve(), and the
\* loop of process() continues after the await
IdleWrite ==
    /\ idleCb # << >>
    /\ qStore' = [qStore EXCEPT ![idleCb[1].key] = Stringify(idleCb[1].value)]
    /\ ProcessLoop(queue)
    /\ qWait' = 0
    /\ qSuperseded' = (qSuperseded \/ idleCb[1].value # qLastAdd[idleCb[1].key])
    /\ UNCHANGED << hasRIC, qReports, qLastAdd, qReplaced, qFailures >>
    /\ UNCHANGED notQueue

\* the callback with setItem throwing (quota exceeded): the exception leaves
\* the callback, resolve() is never called and the promise stays pending, so
\* process() never resumes and its catch block never runs
IdleWriteThrows ==
    /\ idleCb # << >>
    /\ idleCb' = << >>
    /\ qFailures' = Sat(qFailures, MaxCount)
    /\ qWait' = 0
    /\ UNCHANGED << queue, processing, hasRIC, qStore, qReports, qLastAdd,
                    qReplaced, qSuperseded >>
    /\ UNCHANGED notQueue

\* a period passes in which the host reports no idle time: a callback given
\* to requestIdleCallback (called without a timeout option) keeps waiting; a
\* setTimeout(..., 0) callback runs before any such period has passed
HostBusy ==
    /\ idleCb # << >>
    /\ hasRIC
    /\ qWait' = Sat(qWait, IdleTimeout + 1)
    /\ UNCHANGED << queue, processing, idleCb, hasRIC, qStore, qReports,
                    qLastAdd, qReplaced, qFailures, qSuperseded >>
    /\ UNCHANGED notQueue

NextQueue ==
    \/ \E k \in Keys, v \in Vals, p \in Priorities : Add(k, v, p)
    \/ IdleWrite
    \/ IdleWriteThrows
    \/ HostBusy

InitQueueSpec ==
    /\ InitQueue
    /\ ExtraIdle
    /\ HookIdle /\ WindowIdle /\ ListIdle /\ StreamIdle /\ CacheIdle
    /\ CallersIdle

SpecQueue == InitQueueSpec /\ [][NextQueue]_vars

\* ------------------------------------------------------------------------
\* Properties of LocalStorageQueue
\* ------------------------------------------------------------------------

C5_FailedWriteNeverBlocks == (queue # << >>) => (idleCb # << >>)

\* C6: every failed write of the queue is reported exactly once.
C6_FailureReportedOnce == qReports = qFailures

\* ------------------------------------------------------------------------
\* Viewport Windower
\* ------------------------------------------------------------------------

\* sum of the heights of items lo .. hi (0-based), by halving
RECURSIVE SumHeights(_, _, _)
SumHeights(h, lo, hi) ==
    IF lo > hi THEN 0
    ELSE IF lo = hi THEN h[lo + 1]
    ELSE LET mid == (lo + hi) \div 2
         IN  SumHeights(h, lo, mid) + SumHeights(h, mid + 1, hi)

\* prefix sum: absolute top offset of item i
OffsetOf(h, i) == SumHeights(h, 0, i - 1)

\* cumulative offset through item i (its bottom edge)
EndOf(h, i) == SumHeights(h, 0, i)

\* a search for the first index that also accepts a cumulative offset equal
\* to `offset`
RECURSIVE FirstAtOrAbove(_, _, _, _)
FirstAtOrAbove(h, lo, hi, offset) ==
    IF lo >= hi THEN lo
    ELSE LET mid == (lo + hi) \div 2
         IN  IF EndOf(h, mid) >= offset
                THEN FirstAtOrAbove(h, lo, mid, offset)
                ELSE FirstAtOrAbove(h, mid + 1, hi, offset)

\* binary search: first index in lo .. hi-1 whose cumulative offset exceeds
\* `offset`; hi if there is none
RECURSIVE FirstAbove(_, _, _, _)
FirstAbove(h, lo, hi, offset) ==
    IF lo >= hi THEN lo
    ELSE LET mid == (lo + hi) \div 2
         IN  IF EndOf(h, mid) > offset
                THEN FirstAbove(h, lo, mid, offset)
                ELSE FirstAbove(h, mid + 1, hi, offset)

\* a search for the last index that also accepts an item starting exactly
\* at `offset`
RECURSIVE LastAtOrBelow(_, _, _, _)
LastAtOrBelow(h, lo, hi, offset) ==
    IF lo >= hi THEN lo
    ELSE LET mid == (lo + hi + 1) \div 2
         IN  IF OffsetOf(h, mid) <= offset
                THEN LastAtOrBelow(h, mid, hi, offset)
                ELSE LastAtOrBelow(h, lo, mid - 1, offset)

\* binary search: last index in lo+1 .. hi whose cumulative offset is below
\* `offset`; lo if there is none
RECURSIVE LastBelow(_, _, _, _)
LastBelow(h, lo, hi, offset) ==
    IF lo >= hi THEN lo
    ELSE LET mid == (lo + hi + 1) \div 2
         IN  IF OffsetOf(h, mid) < offset
                THEN LastBelow(h, mid, hi, offset)
                ELSE LastBelow(h, lo, mid - 1, offset)

Max(a, b) == IF a >= b THEN a ELSE b

Min(a, b) == IF a <= b THEN a ELSE b

Range(s, e) == [startIndex |-> s, endIndex |-> e]

EmptyRange == Range(0, -1)

\* a windower without the default range: nothing for an unmeasured viewport
computeWindowNoDefault(itemCount, h, scroll, viewport, over) ==
    IF itemCount <= 0 \/ viewport <= 0 THEN Range(0, -1)
    ELSE LET first == FirstAbove(h, 0, itemCount, scroll)
             last  == LastBelow(h, -1, itemCount - 1, scroll + viewport)
         IN  Range(Max(0, first - over), Min(itemCount - 1, last + over))

\* computeWindow(itemCount, heightOf, scrollOffset, viewportHeight,
\* overscanCount) of section 4.2
computeWindow(itemCount, h, scroll, viewport, over) ==
    IF itemCount <= 0 THEN EmptyRange
    ELSE IF viewport <= 0
            THEN Range(0, Min(itemCount, 2 * over) - 1)
    ELSE LET first == FirstAbove(h, 0, itemCount, scroll)
             last  == LastBelow(h, -1, itemCount - 1,
                                scroll + viewport)
         IN  Range(Max(0, first - over), Min(itemCount - 1, last + over))

HeightSeqs(n) == [1 .. n -> 1 .. MaxHeight]

\* scenario B of the spec: 1000 items of height 200, scrollOffset 50000,
\* viewportHeight 800, overscanCount 5
ScenarioB ==
    /\ wHeights = [i \in 1 .. 1000 |-> defaultHeight]
    /\ wScroll = 50000
    /\ wView = 800
    /\ wOver = overscanCount

\* scenario A of the spec: 0 items, viewportHeight 500
ScenarioA ==
    /\ wHeights = << >>
    /\ wScroll = 0
    /\ wView = 500
    /\ wOver = overscanCount

InitWindow ==
    /\ \/ /\ \E n \in 0 .. MaxItems : wHeights \in HeightSeqs(n)
          /\ wScroll \in 0 .. MaxScroll
          /\ wView \in -1 .. MaxView
          /\ wOver \in 0 .. MaxOver
       \/ ScenarioA
       \/ ScenarioB
    /\ wRange = << >>

InitWindowSpec ==
    /\ InitWindow
    /\ ExtraIdle
    /\ HookIdle /\ QueueIdle /\ ListIdle /\ StreamIdle /\ CacheIdle
    /\ CallersIdle

\* the caller asks for the window of the current inputs
ComputeWindow ==
    /\ wRange = << >>
    /\ wRange' = << computeWindow(Len(wHeights), wHeights, wScroll, wView, wOver) >>
    /\ UNCHANGED << wHeights, wScroll, wView, wOver >>
    /\ UNCHANGED notWindow

NextWindow == ComputeWindow

SpecWindow == InitWindowSpec /\ [][NextWindow]_vars

\* ------------------------------------------------------------------------
\* Properties of the Viewport Windower
\* ------------------------------------------------------------------------

\* item i's interval [offset, offset + height) meets the viewport
Intersects(i) ==
    /\ OffsetOf(wHeights, i) < wScroll + wView
    /\ EndOf(wHeights, i) > wScroll

VisibleSet == {i \in 0 .. Len(wHeights) - 1 : Intersects(i)}

InRange(r) == {i \in r.startIndex .. r.endIndex : TRUE}

\* C7: for viewportHeight > 0 the returned range contains every index whose
\* interval meets the viewport, at most overscanCount further indices on each
\* side, and only indices of 0 .. itemCount-1.
C7_WindowCorrect ==
    (wRange # << >> /\ wView > 0) =>
        LET r == wRange[1]
            visible == VisibleSet
            before == {i \in InRange(r) : \A j \in visible : i < j}
            after  == {i \in InRange(r) : \A j \in visible : i > j}
        IN  /\ visible \subseteq InRange(r)
            /\ InRange(r) \subseteq 0 .. Len(wHeights) - 1
            /\ Cardinality(before) <= wOver
            /\ Cardinality(after) <= wOver

C7_Witness ==
    /\ wRange # << >>
    /\ wView > 0
    /\ Len(wHeights) = MaxItems
    /\ wOver = 1
    /\ Cardinality(VisibleSet) = 1
    /\ wRange[1] = Range(0, 2)

\* C8 as stated: scenario B returns startIndex 245 and endIndex 259.
C8_ScenarioB_245_259 ==
    (ScenarioB /\ wRange # << >>) => wRange[1] = Range(245, 259)

\* C8 amended: scenario B returns startIndex 245 and endIndex 258 (items
\* 250 .. 253 meet the viewport, item 254 starts at its bottom edge).
C8_ScenarioB_245_258 ==
    (ScenarioB /\ wRange # << >>) => wRange[1] = Range(245, 258)

C8_Witness ==
    /\ ScenarioB
    /\ wRange # << >>
    /\ wRange[1].endIndex - wRange[1].startIndex = 13

\* ------------------------------------------------------------------------
\* VirtualMessageList
\* ------------------------------------------------------------------------

\* getRowHeight(index): rowHeights.current[index] || 200
getRowHeight(heights, index) ==
    IF heights[index] = -1 \/ heights[index] = 0
       THEN defaultHeight
       ELSE heights[index]

\* the item sizes the List lays out: itemSize={getRowHeight}
RowSizes(msgs, heights) ==
    [i \in 1 .. Len(msgs) |-> getRowHeight(heights, i - 1)]

\* messages.reduce((sum, _, i) => sum + getRowHeight(i), 0)
TotalHeight(msgs, heights) ==
    SumHeights(RowSizes(msgs, heights), 0, Len(msgs) - 1)

\* a setRowHeight that drops the measurement
setRowHeightDiscard(heights, index, size) == heights

\* setRowHeight(index, size): stores the size if it differs
setRowHeight(heights, index, size) ==
    IF heights[index] # size
       THEN [heights EXCEPT ![index] = size]
       ELSE heights

\* handleScroll that does not look at scrollUpdateWasRequested
handleScrollAnyScroll(near, msgs, heights, offset, lh, requested) ==
    TotalHeight(msgs, heights) - (offset + lh) < nearBottomThreshold

\* handleScroll that counts a distance of exactly the threshold as near
handleScrollInclusive(near, msgs, heights, offset, lh, requested) ==
    IF ~requested
       THEN TotalHeight(msgs, heights) - (offset + lh) <= nearBottomThreshold
       ELSE near

\* handleScroll({scrollOffset, scrollUpdateWasRequested}): the new value of
\* isNearBottom
handleScroll(near, msgs, heights, offset, lh, requested) ==
    IF ~requested
       THEN TotalHeight(msgs, heights) - (offset + lh) < nearBottomThreshold
       ELSE near

\* scrollToItem(index, 'end') of the List: the item's bottom at the
\* viewport's bottom
ScrollToEnd(msgs, heights, index, lh) ==
    Max(0, EndOf(RowSizes(msgs, heights), index) - lh)

\* scrollToItem(index, 'center') of the List
ScrollToCenter(msgs, heights, index, lh) ==
    LET sizes == RowSizes(msgs, heights)
        maxOffset == Max(0, Min(TotalHeight(msgs, heights) - lh,
                                OffsetOf(sizes, index)))
        minOffset == Max(0, EndOf(sizes, index) - lh)
    IN  minOffset + (maxOffset - minOffset) \div 2

\* an auto-scroll effect that never scrolls
AutoScrollNever(depsChanged, near, msgs, heights, offset, lh) == offset

\* the auto-scroll effect, deps [messages.length, isNearBottom]: the scroll
\* offset after it
AutoScroll(depsChanged, near, msgs, heights, offset, lh) ==
    IF depsChanged /\ near /\ Len(msgs) > 0
       THEN ScrollToEnd(msgs, heights, Len(msgs) - 1, lh)
       ELSE offset

\* topmost item that is fully or partially visible
AnchorIndex(msgs, heights, offset) ==
    FirstAbove(RowSizes(msgs, heights), 0, Len(msgs), offset)

\* messages.findIndex(m => m.id === id): message ids are 1, 2, ... in order
FindIndex(msgs, id) ==
    IF id >= 1 /\ id <= Len(msgs) THEN id - 1 ELSE -1

\* the scrollToMessageId effect, deps [scrollToMessageId, messages]: the
\* scroll offset after it
ScrollToMessageEffect(depsChanged, id, msgs, heights, offset, lh) ==
    IF depsChanged /\ id # 0 /\ FindIndex(msgs, id) # -1
       THEN ScrollToCenter(msgs, heights, FindIndex(msgs, id), lh)
       ELSE offset

\* row `index` meets the viewport at `offset`
RowInView(msgs, heights, index, offset, lh) ==
    /\ OffsetOf(RowSizes(msgs, heights), index) < offset + lh
    /\ EndOf(RowSizes(msgs, heights), index) > offset

\* history of an event of the list
ListHistory(event) ==
    /\ lEvent' = event
    /\ lPrevNear' = isNearBottom
    /\ lMoved' = (scrollOffset' # scrollOffset)
    /\ lPrevWithin' = (TotalHeight(messages, rowHeights)
                         - (scrollOffset + listHeight) < nearBottomThreshold)
    /\ IF event = "measure"
          THEN /\ lRelayout' = (rowHeights' # rowHeights)
               /\ lRangeChanged' =
                     (computeWindow(Len(messages),
                                    RowSizes(messages, rowHeights'),
                                    scrollOffset', listHeight, 0)
                      # computeWindow(Len(messages),
                                      RowSizes(messages, rowHeights),
                                      scrollOffset, listHeight, 0))
          ELSE /\ lStored' = FALSE
               /\ lRelayout' = FALSE
               /\ lRangeChanged' = FALSE

\* first render: isNearBottom = true, the auto-scroll effect has run
InitList ==
    /\ \E n \in 0 .. 1 : messages = [i \in 1 .. n |-> i]
    /\ rowHeights = [i \in 0 .. MaxMsgs - 1 |-> -1]
    /\ listHeight \in ListHeights
    /\ isNearBottom = TRUE
    /\ scrollOffset = AutoScroll(TRUE, TRUE, messages, rowHeights, 0, listHeight)
    /\ lEvent = "init"
    /\ lPrevNear = TRUE
    /\ lAnchorShift = 0
    /\ scrollToMessageId = 0
    /\ lTargetLost = FALSE
    /\ lStored = FALSE
    /\ lRelayout = FALSE
    /\ lRangeChanged = FALSE
    /\ lMoved = FALSE
    /\ lPrevWithin = TRUE

InitListSpec ==
    /\ InitList
    /\ ExtraIdle
    /\ HookIdle /\ QueueIdle /\ WindowIdle /\ StreamIdle /\ CacheIdle
    /\ CallersIdle

\* the user scrolls to `offset`: onScroll with scrollUpdateWasRequested
\* false, then the auto-scroll effect if isNearBottom changed
UserScroll(offset) ==
    /\ offset <= Max(0, TotalHeight(messages, rowHeights) - listHeight)
    /\ LET near == handleScroll(isNearBottom, messages, rowHeights, offset,
                                listHeight, FALSE)
       IN  /\ isNearBottom' = near
           /\ scrollOffset' = AutoScroll(near # isNearBottom, near, messages,
                                         rowHeights, offset, listHeight)
    /\ ListHistory("user")
    /\ lAnchorShift' = 0
    /\ lTargetLost' = FALSE
    /\ UNCHANGED << messages, rowHeights, listHeight, scrollToMessageId >>
    /\ UNCHANGED notList

\* a message is appended: messages changes, the scrollToMessageId effect
\* (declared first) runs, then the auto-scroll effect; their scrollToItem
\* calls reach onScroll as requested scrolls
AppendMessage ==
    /\ Len(messages) < MaxMsgs
    /\ LET msgs == Append(messages, Len(messages) + 1)
           target == ScrollToMessageEffect(TRUE, scrollToMessageId, msgs,
                                           rowHeights, scrollOffset,
                                           listHeight)
           offset == AutoScroll(TRUE, isNearBottom, msgs, rowHeights, target,
                                listHeight)
       IN  /\ messages' = msgs
           /\ scrollOffset' = offset
           /\ isNearBottom' = handleScroll(isNearBottom, msgs, rowHeights,
                                           offset, listHeight, TRUE)
           /\ lTargetLost' =
                 /\ FindIndex(messages, scrollToMessageId) # -1
                 /\ TotalHeight(messages, rowHeights)
                       - (scrollOffset + listHeight) >= nearBottomThreshold
                 /\ RowInView(messages, rowHeights, scrollToMessageId - 1,
                              scrollOffset, listHeight)
                 /\ ~RowInView(msgs, rowHeights, scrollToMessageId - 1,
                               offset,
                               listHeight)
    /\ ListHistory("append")
    /\ lAnchorShift' = 0
    /\ UNCHANGED << rowHeights, listHeight, scrollToMessageId >>
    /\ UNCHANGED notList

\* the parent sets the scrollToMessageId prop to `id`: the scrollToMessageId
\* effect runs, scrollToItem(index, 'center') is a requested scroll
ScrollToMessage(id) ==
    /\ id # 0
    /\ id # scrollToMessageId
    /\ scrollToMessageId' = id
    /\ LET offset == ScrollToMessageEffect(TRUE, id, messages, rowHeights,
                                           scrollOffset, listHeight)
       IN  /\ scrollOffset' = offset
           /\ isNearBottom' = handleScroll(isNearBottom, messages, rowHeights,
                                           offset, listHeight, TRUE)
    /\ lTargetLost' = FALSE
    /\ ListHistory("programmatic")
    /\ lAnchorShift' = 0
    /\ UNCHANGED << messages, rowHeights, listHeight >>
    /\ UNCHANGED notList

\* the parent clears the scrollToMessageId prop: the effect runs and finds no
\* message
ClearScrollToMessage ==
    /\ scrollToMessageId # 0
    /\ scrollToMessageId' = 0
    /\ scrollOffset' = ScrollToMessageEffect(TRUE, 0, messages, rowHeights,
                                             scrollOffset, listHeight)
    /\ lTargetLost' = FALSE
    /\ ListHistory("clear")
    /\ lAnchorShift' = 0
    /\ UNCHANGED << messages, rowHeights, listHeight, isNearBottom >>
    /\ UNCHANGED notList

\* a row's measurement effect: setRowHeight(index, height); the list is
\* laid out again (resetAfterIndex), nothing scrolls
MeasureRow(index, size) ==
    /\ index < Len(messages)
    /\ rowHeights' = setRowHeight(rowHeights, index, size)
    /\ lStored' = (rowHeights'[index] = size)
    /\ UNCHANGED << messages, scrollOffset, listHeight, isNearBottom,
                    scrollToMessageId >>
    /\ lTargetLost' = FALSE
    /\ LET anchor == AnchorIndex(messages, rowHeights, scrollOffset)
           before == OffsetOf(RowSizes(messages, rowHeights), anchor)
                        - scrollOffset
           after  == OffsetOf(RowSizes(messages, rowHeights'), anchor)
                        - scrollOffset'
       IN  lAnchorShift' = IF ~isNearBottom /\ index < anchor
                                /\ anchor < Len(messages)
                                /\ TotalHeight(messages, rowHeights)
                                      - (scrollOffset + listHeight)
                                        >= nearBottomThreshold
                              THEN after - before
                              ELSE 0
    /\ ListHistory("measure")
    /\ UNCHANGED notList

NextList ==
    \/ \E n \in 0 .. (MaxMsgs * 300) \div ScrollStep : UserScroll(n * ScrollStep)
    \/ AppendMessage
    \/ \E id \in 1 .. MaxMsgs : ScrollToMessage(id)
    \/ ClearScrollToMessage
    \/ \E i \in 0 .. MaxMsgs - 1, size \in Sizes : MeasureRow(i, size)

SpecList == InitListSpec /\ [][NextList]_vars

\* ------------------------------------------------------------------------
\* VirtualMessageList: the rows the List renders, with a streaming message
\* ------------------------------------------------------------------------

\* a List that renders every row
MountedRowsAll(msgs, heights, offset, lh) == 0 .. Len(msgs) - 1

\* the rows <List overscanCount={5}> renders: the rows that meet the
\* viewport and overscanCount rows on each side
MountedRows(msgs, heights, offset, lh) ==
    InRange(computeWindow(Len(msgs), RowSizes(msgs, heights), offset, lh,
                          overscanCount))

\* index of the row rendered with isStreaming (isStreaming &&
\* message.id === currentMessageId), -1 if none
StreamingIndex(msgs, streaming, id) ==
    IF streaming THEN FindIndex(msgs, id) ELSE -1

\* rowHeights after the measurement effect of the streaming row, which runs
\* only while the row is rendered
MeasureStreamingRow(heights, mounted, index, height) ==
    IF index \in mounted THEN setRowHeight(heights, index, height)
                          ELSE heights

\* a loaded conversation of unmeasured rows, first render
InitRows ==
    /\ \E n \in MaxRows - 2 .. MaxRows - 1 : messages = [i \in 1 .. n |-> i]
    /\ rowHeights = [i \in 0 .. MaxRows - 1 |-> -1]
    /\ listHeight \in ListHeights
    /\ isNearBottom = TRUE
    /\ scrollOffset = AutoScroll(TRUE, TRUE, messages, rowHeights, 0, listHeight)
    /\ scrollToMessageId = 0
    /\ lEvent = "init"
    /\ lPrevNear = TRUE
    /\ lAnchorShift = 0
    /\ lTargetLost = FALSE
    /\ lStored = FALSE
    /\ lRelayout = FALSE
    /\ lRangeChanged = FALSE
    /\ lMoved = FALSE
    /\ lPrevWithin = TRUE
    /\ isStreaming = FALSE
    /\ currentMessageId = 0
    /\ streamHeight = 0
    /\ mountedRows = MountedRows(messages, rowHeights, scrollOffset, listHeight)

InitRowsSpec ==
    /\ InitRows
    /\ ExtraIdle
    /\ HookIdle /\ QueueIdle /\ WindowIdle /\ CacheIdle /\ CallersIdle

\* the assistant's message is appended and starts streaming: the effects of
\* an append run, the List renders, the new row is measured if rendered
StartStreaming ==
    /\ ~isStreaming
    /\ Len(messages) < MaxRows
    /\ LET msgs == Append(messages, Len(messages) + 1)
           height == CHOOSE h \in StreamHeights :
                        \A g \in StreamHeights : h <= g
           target == ScrollToMessageEffect(TRUE, scrollToMessageId, msgs,
                                           rowHeights, scrollOffset,
                                           listHeight)
           offset == AutoScroll(TRUE, isNearBottom, msgs, rowHeights, target,
                                listHeight)
           mounted == MountedRows(msgs, rowHeights, offset, listHeight)
       IN  /\ messages' = msgs
           /\ isStreaming' = TRUE
           /\ currentMessageId' = Len(msgs)
           /\ streamHeight' = height
           /\ scrollOffset' = offset
           /\ isNearBottom' = handleScroll(isNearBottom, msgs, rowHeights,
                                           offset, listHeight, TRUE)
           /\ rowHeights' = MeasureStreamingRow(rowHeights, mounted,
                                                Len(msgs) - 1, height)
           /\ mountedRows' = MountedRows(msgs, rowHeights', offset, listHeight)
    /\ ListHistory("append")
    /\ lAnchorShift' = 0
    /\ lTargetLost' = FALSE
    /\ UNCHANGED << listHeight, scrollToMessageId >>
    /\ UNCHANGED notRows

\* a chunk arrives: the streaming message's content grows; its row, if
\* rendered, is measured again (effect deps [index, message.content])
StreamChunk(height) ==
    /\ isStreaming
    /\ height > streamHeight
    /\ streamHeight' = height
    /\ rowHeights' = MeasureStreamingRow(rowHeights, mountedRows,
                                         StreamingIndex(messages, isStreaming,
                                                        currentMessageId),
                                         height)
    /\ scrollOffset' = ScrollToMessageEffect(TRUE, scrollToMessageId, messages,
                                             rowHeights, scrollOffset,
                                             listHeight)
    /\ mountedRows' = MountedRows(messages, rowHeights', scrollOffset',
                                  listHeight)
    /\ ListHistory("chunk")
    /\ lAnchorShift' = 0
    /\ lTargetLost' = FALSE
    /\ UNCHANGED << messages, listHeight, isNearBottom, scrollToMessageId,
                    isStreaming, currentMessageId >>
    /\ UNCHANGED notRows

\* the stream ends
StopStreaming ==
    /\ isStreaming
    /\ isStreaming' = FALSE
    /\ UNCHANGED << currentMessageId, streamHeight, mountedRows >>
    /\ UNCHANGED listVars
    /\ UNCHANGED notRows

\* the user scrolls to `offset`: handleScroll, the auto-scroll effect if
\* isNearBottom changed, the List renders the rows of the new position and a
\* streaming row that is mounted again is measured
ScrollRows(offset) ==
    /\ offset <= Max(0, TotalHeight(messages, rowHeights) - listHeight)
    /\ LET near == handleScroll(isNearBottom, messages, rowHeights, offset,
                                listHeight, FALSE)
           final == AutoScroll(near # isNearBottom, near, messages,
                               rowHeights, offset, listHeight)
           mounted == MountedRows(messages, rowHeights, final, listHeight)
       IN  /\ isNearBottom' = near
           /\ scrollOffset' = final
           /\ rowHeights' = MeasureStreamingRow(
                                rowHeights, mounted \ mountedRows,
                                StreamingIndex(messages, isStreaming,
                                               currentMessageId),
                                streamHeight)
           /\ mountedRows' = MountedRows(messages, rowHeights', final,
                                         listHeight)
    /\ ListHistory("user")
    /\ lAnchorShift' = 0
    /\ lTargetLost' = FALSE
    /\ UNCHANGED << messages, listHeight, scrollToMessageId, isStreaming,
                    currentMessageId, streamHeight >>
    /\ UNCHANGED notRows

NextRows ==
    \/ StartStreaming
    \/ \E h \in StreamHeights : StreamChunk(h)
    \/ StopStreaming
    \/ \E n \in 0 .. (MaxRows * 300) \div ScrollStep : ScrollRows(n * ScrollStep)

SpecRows == InitRowsSpec /\ [][NextRows]_vars

\* ------------------------------------------------------------------------
\* VirtualMessageList: row heights of a conversation that grows at both ends
\* ------------------------------------------------------------------------

\* rowRef.current.getBoundingClientRect().height of the row of message `id`
DomHeight(id) == 100 * id

\* the measurement effect of every rendered row: setRowHeight(index, height)
MeasureRows(msgs, heights, mounted) ==
    [i \in DOMAIN heights |->
        IF i \in mounted
           THEN setRowHeight(heights, i, DomHeight(msgs[i + 1]))[i]
           ELSE heights[i]]

\* render, measure, resetAfterIndex and render again until no rendered row
\* has a new height
RECURSIVE Layout(_, _, _, _)
Layout(msgs, heights, offset, lh) ==
    LET measured == MeasureRows(msgs, heights,
                                MountedRows(msgs, heights, offset, lh))
    IN  IF measured = heights THEN heights
        ELSE Layout(msgs, measured, offset, lh)

\* idHeight after the rendered rows have been measured
MeasuredIds(msgs, mounted) ==
    [id \in DOMAIN idHeight |->
        IF \E i \in mounted : msgs[i + 1] = id THEN DomHeight(id)
        ELSE idHeight[id]]

\* the list's state after a render with `msgs` at `offset`
Rendered(msgs, offset) ==
    /\ messages' = msgs
    /\ scrollOffset' = offset
    /\ rowHeights' = Layout(msgs, rowHeights, offset, listHeight)
    /\ mountedRows' = MountedRows(msgs, rowHeights', offset, listHeight)
    /\ idHeight' = MeasuredIds(msgs, mountedRows')
    /\ lAnchorShift' = 0
    /\ lTargetLost' = FALSE
    /\ UNCHANGED << listHeight, scrollToMessageId, isStreaming,
                    currentMessageId, streamHeight >>
    /\ UNCHANGED notHeights

\* a loaded conversation, first render: the auto-scroll effect has run and
\* the rendered rows are measured
InitHeights ==
    /\ messages = [i \in 1 .. MaxRows |-> i]
    /\ listHeight \in ListHeights
    /\ isNearBottom = TRUE
    /\ scrollOffset = AutoScroll(TRUE, TRUE, messages,
                                 [i \in 0 .. MaxLoaded - 1 |-> -1], 0,
                                 listHeight)
    /\ rowHeights = Layout(messages, [i \in 0 .. MaxLoaded - 1 |-> -1],
                           scrollOffset, listHeight)
    /\ mountedRows = MountedRows(messages, rowHeights, scrollOffset,
                                 listHeight)
    /\ idHeight = [id \in 1 .. MaxLoaded |->
                     IF \E i \in mountedRows : messages[i + 1] = id
                        THEN DomHeight(id) ELSE 0]
    /\ scrollToMessageId = 0
    /\ lEvent = "init"
    /\ lPrevNear = TRUE
    /\ lAnchorShift = 0
    /\ lTargetLost = FALSE
    /\ lStored = FALSE
    /\ lRelayout = FALSE
    /\ lRangeChanged = FALSE
    /\ lMoved = FALSE
    /\ lPrevWithin = TRUE
    /\ isStreaming = FALSE
    /\ currentMessageId = 0
    /\ streamHeight = 0

InitHeightsSpec ==
    /\ InitHeights
    /\ HookIdle /\ QueueIdle /\ WindowIdle /\ CacheIdle /\ CallersIdle
    /\ MigrationIdle /\ SpacesIdle /\ IntervalIdle /\ PoolIdle
    /\ MarkdownIdle

\* the user scrolls to `offset`: handleScroll, the auto-scroll effect if
\* isNearBottom changed, the List renders and measures the rows there
ScrollHeights(offset) ==
    /\ offset <= Max(0, TotalHeight(messages, rowHeights) - listHeight)
    /\ offset # scrollOffset
    /\ LET near == handleScroll(isNearBottom, messages, rowHeights, offset,
                                listHeight, FALSE)
       IN  /\ isNearBottom' = near
           /\ Rendered(messages,
                       AutoScroll(near # isNearBottom, near, messages,
                                  rowHeights, offset, listHeight))
    /\ ListHistory("user")

\* the parent appends a new message
AppendHeights ==
    /\ Len(messages) < MaxLoaded
    /\ LET msgs == Append(messages, Len(messages) + 1)
       IN  Rendered(msgs, AutoScroll(TRUE, isNearBottom, msgs, rowHeights,
                                     scrollOffset, listHeight))
    /\ ListHistory("append")
    /\ UNCHANGED isNearBottom

\* the parent loads an older message and puts it before the others
PrependHeights ==
    /\ Len(messages) < MaxLoaded
    /\ LET msgs == << Len(messages) + 1 >> \o messages
       IN  Rendered(msgs, AutoScroll(TRUE, isNearBottom, msgs, rowHeights,
                                     scrollOffset, listHeight))
    /\ ListHistory("prepend")
    /\ UNCHANGED isNearBottom

NextHeights ==
    \/ \E n \in 0 .. (MaxLoaded * DomHeight(MaxLoaded)) \div (4 * ScrollStep) :
          ScrollHeights(n * 4 * ScrollStep)
    \/ AppendHeights
    \/ PrependHeights

SpecHeights == InitHeightsSpec /\ [][NextHeights]_vars

\* ------------------------------------------------------------------------
\* Properties of VirtualMessageList
\* ------------------------------------------------------------------------

DistanceFromBottom ==
    TotalHeight(messages, rowHeights) - (scrollOffset + listHeight)

\* C9: while scrolled away from the bottom, a height correction of an item
\* above the anchor (the topmost visible item) leaves the anchor at the same
\* offset from the viewport top.
C9_AnchorStable == lAnchorShift = 0

\* C10: the list starts near-bottom (Following); after a user scroll it is
\* near-bottom exactly when the viewport's bottom edge is less than the
\* threshold away from the total height; no other event (requested scrolls
\* included) takes it from near-bottom to scrolled-away.
C10_ScrollStateMachine ==
    /\ lEvent = "init" => isNearBottom
    /\ lEvent = "user" =>
          (isNearBottom <=> DistanceFromBottom < nearBottomThreshold)
    /\ (lEvent # "user" /\ lPrevNear) => isNearBottom

\* a requested scroll has taken a near-bottom list away from the bottom
C10_Witness ==
    /\ lEvent = "programmatic"
    /\ lPrevNear
    /\ isNearBottom
    /\ DistanceFromBottom >= nearBottomThreshold

\* C27: in every state isNearBottom is true exactly when the distance of
\* the viewport's bottom edge from the total height is below 100, also after
\* an append or a height correction without a user scroll.
C27_NearBottomMatchesGeometry ==
    isNearBottom <=> (DistanceFromBottom < nearBottomThreshold)

\* C27 (amended): isNearBottom matches the geometry after the first render
\* and after every user scroll; appends, requested scrolls and height
\* corrections leave the flag as it was, whatever the geometry has become.
C27_NearBottomSetByUserScroll ==
    /\ lEvent \in {"init", "user"} =>
          (isNearBottom <=> (DistanceFromBottom < nearBottomThreshold))
    /\ lEvent \notin {"init", "user"} => (isNearBottom = lPrevNear)

\* a height correction has pushed the bottom away from a list that is still
\* flagged near-bottom
C27_Witness ==
    /\ lEvent = "measure"
    /\ lStored
    /\ isNearBottom
    /\ DistanceFromBottom >= nearBottomThreshold

\* the rows that meet the viewport, without overscan
VisibleRange ==
    computeWindow(Len(messages), RowSizes(messages, rowHeights), scrollOffset,
                  listHeight, 0)

\* C11: an append made while the list is scrolled away from the bottom (the
\* user's last scroll ended at least the threshold away) leaves the scroll
\* offset unchanged; only a near-bottom list auto-scrolls.
C11_AppendWhileAwayKeepsOffset ==
    (lEvent = "append" /\ ~lPrevNear) => ~lMoved

\* C12: an append made while the list is near-bottom and its bottom edge was
\* within the threshold of the previous total height ends with the new last
\* item's bottom in view, the new item in the range of visible rows, and the
\* list still near-bottom.
C12_AppendWhileFollowing ==
    (lEvent = "append" /\ lPrevNear /\ lPrevWithin) =>
        /\ scrollOffset + listHeight >= TotalHeight(messages, rowHeights)
        /\ VisibleRange.endIndex = Len(messages) - 1
        /\ isNearBottom

C12_Witness ==
    /\ lEvent = "append"
    /\ lPrevNear
    /\ lPrevWithin
    /\ lMoved
    /\ Len(messages) >= 2
    /\ VisibleRange.endIndex = Len(messages) - 1
    /\ VisibleRange.startIndex > 0

\* C16: while the message of scrollToMessageId is in the viewport, away from
\* the bottom, an append does not take the viewport away from that message.
C16_AppendKeepsScrollTarget == ~lTargetLost

C20_EmptyExactlyWithoutItems ==
    wRange # << >> =>
        LET r == wRange[1]
            n == Len(wHeights)
        IN  /\ InRange(r) = {} <=> n <= 0
            /\ (n > 0 /\ wView <= 0) =>
                  /\ InRange(r) = 0 .. Min(n, 2 * wOver) - 1
                  /\ InRange(r) # {}
                  /\ InRange(r) \subseteq 0 .. n - 1

\* C20 (amended): computeWindow returns a range of 0 .. itemCount-1 for every
\* input; with items and viewportHeight <= 0 it is the first
\* min(itemCount, 2 * overscanCount) items; the range is empty exactly when
\* there are no items, or overscanCount is 0 and either viewportHeight <= 0
\* or scrollOffset is not below the total height.
C20_WindowEdgeCases ==
    wRange # << >> =>
        LET r == wRange[1]
            n == Len(wHeights)
        IN  /\ r.startIndex \in Int /\ r.endIndex \in Int
            /\ InRange(r) \subseteq 0 .. n - 1
            /\ n <= 0 => r = EmptyRange
            /\ (n > 0 /\ wView <= 0) =>
                  InRange(r) = 0 .. Min(n, 2 * wOver) - 1
            /\ InRange(r) = {} <=>
                  \/ n <= 0
                  \/ /\ wOver = 0
                     /\ \/ wView <= 0
                        \/ wScroll >= SumHeights(wHeights, 0, n - 1)

\* the default range of an unmeasured viewport, cut to the item count
C20_Witness ==
    /\ wRange # << >>
    /\ Len(wHeights) = MaxItems
    /\ wView <= 0
    /\ wOver = MaxOver
    /\ wRange[1] = Range(0, Min(MaxItems, 2 * MaxOver) - 1)

\* C21: the store never receives a payload that a later add for the same
\* key has superseded, also when the older write has left the queue and
\* waits in the idle callback.
C21_SupersededNeverWritten == ~qSuperseded

\* C19: a write handed to the idle callback has run before more than
\* IdleTimeout periods without idle time have passed; without
\* requestIdleCallback it runs without waiting.
C19_IdleWriteWithinBound ==
    /\ qWait <= IdleTimeout
    /\ ~hasRIC => qWait = 0

\* ------------------------------------------------------------------------
\* useDebouncedLocalStorage used by two components with the same key
\* ------------------------------------------------------------------------

\* clearTimeout(timeoutRef.current): timeoutRef belongs to the component
ClearTimeout(pending, c) ==
    LET others(t) == t[1] # c
    IN  SelectSeq(pending, others)

\* setTimeout(..., delay) after the clearTimeout, by component c for value v
SetTimeout(pending, c, v) ==
    Append(ClearTimeout(pending, c), << c, RestartTimer(-1), v >>)

\* components that have a timeout pending
Pending(pending) == {pending[i][1] : i \in 1 .. Len(pending)}

\* both components are mounted, their first writes are done: the item holds
\* the value both have read
InitCallers ==
    /\ iMounted = Callers
    /\ \E v \in Vals :
          /\ iStored = [c \in Callers |-> InitialState(Stringify(v), v)]
          /\ keyItem = Stringify(v)
    /\ timers = << >>
    /\ wPhase = "idle"
    /\ wWrites = 0
    /\ wLast = None
    /\ wThrew = FALSE

InitCallersSpec ==
    /\ InitCallers
    /\ ExtraIdle
    /\ HookIdle /\ QueueIdle /\ WindowIdle /\ ListIdle /\ StreamIdle
    /\ CacheIdle

\* component c calls setValue(v): setStoredValue, re-render, cleanup + effect
\* of that component if its state changed
CallerSetValue(c, v) ==
    /\ c \in iMounted
    /\ iStored' = [iStored EXCEPT ![c] = v]
    /\ IF EffectRuns(iStored[c], v)
          THEN /\ timers' = SetTimeout(timers, c, v)
               /\ wLast' = v
               /\ wPhase' = IF timers = << >> THEN "one"
                             ELSE IF wPhase = "one" /\ Pending(timers) = {c}
                                     THEN "one"
                             ELSE IF wPhase = "one" /\ c \notin Pending(timers)
                                     THEN "two"
                             ELSE "other"
               /\ wWrites' = IF timers = << >> THEN 0 ELSE wWrites
               /\ wThrew' = IF timers = << >> THEN FALSE ELSE wThrew
          ELSE UNCHANGED << timers, wLast, wPhase, wWrites, wThrew >>
    /\ UNCHANGED << iMounted, keyItem >>
    /\ UNCHANGED notCallers

\* one clock tick; a timeout that is due fires before the clock moves on
CallerTick ==
    /\ timers # << >>
    /\ \A i \in 1 .. Len(timers) : timers[i][2] > 0
    /\ timers' = [i \in 1 .. Len(timers) |->
                     << timers[i][1], timers[i][2] - 1, timers[i][3] >>]
    /\ UNCHANGED << iMounted, iStored, keyItem, wPhase, wWrites, wLast,
                    wThrew >>
    /\ UNCHANGED notCallers

\* the earliest timeout is due: its callback runs
CallerTimerFired ==
    /\ timers # << >>
    /\ Head(timers)[2] = 0
    /\ timers' = Tail(timers)
    /\ wWrites' = Sat(wWrites, MaxCount)
    /\ UNCHANGED << iMounted, iStored, wPhase, wLast >>
    /\ UNCHANGED notCallers

\* the timeout callback, setItem succeeds
CallerTimerWrite ==
    /\ CallerTimerFired
    /\ keyItem' = Stringify(Head(timers)[3])
    /\ UNCHANGED wThrew

\* the timeout callback, setItem throws: caught and logged
CallerTimerWriteThrows ==
    /\ CallerTimerFired
    /\ wThrew' = TRUE
    /\ UNCHANGED keyItem

\* component c unmounts: its effect's cleanup clears its timeout
CallerUnmount(c) ==
    /\ c \in iMounted
    /\ iMounted' = iMounted \ {c}
    /\ timers' = ClearTimeout(timers, c)
    /\ wPhase' = "other"
    /\ UNCHANGED << iStored, keyItem, wWrites, wLast, wThrew >>
    /\ UNCHANGED notCallers

NextCallers ==
    \/ \E c \in Callers, v \in Vals : CallerSetValue(c, v)
    \/ CallerTick
    \/ CallerTimerWrite
    \/ CallerTimerWriteThrows
    \/ \E c \in Callers : CallerUnmount(c)

SpecCallers == InitCallersSpec /\ [][NextCallers]_vars

\* C18: when two components have changed the value of the same key within
\* one debounce window, the store has received exactly one write for the key
\* once no timeout is pending, and it holds the later value.
C18_OneWritePerKey ==
    (timers = << >> /\ wPhase = "two") =>
        /\ wWrites = 1
        /\ ~wThrew => keyItem = Stringify(wLast)

\* ------------------------------------------------------------------------
\* MessageHeightCache
\* ------------------------------------------------------------------------

\* has(messageId)
has(c, id) == id \in DOMAIN c

\* get(messageId): this.cache.get(messageId) || this.defaultHeight; a missing
\* entry and 0 are falsy
get(c, id) ==
    IF has(c, id) /\ c[id] # 0 THEN c[id] ELSE defaultHeight

\* the Map after set(messageId, height)
set(c, id, height) ==
    [i \in DOMAIN c \cup {id} |-> IF i = id THEN height ELSE c[i]]

\* the Map after clear()
clear(c) == EmptyMap

\* an estimate whose length buckets start at 500 and 1000 characters
ContentEstimateFrom(msg) ==
    defaultHeight
      + (IF msg.length >= 500 THEN 100 ELSE 0)
      + (IF msg.length >= 1000 THEN 200 ELSE 0)
      + (IF msg.hasCode THEN 150 ELSE 0)
      + (IF msg.hasImages THEN 300 ELSE 0)

\* the estimate from the content alone
ContentEstimate(msg) ==
    defaultHeight
      + (IF msg.length > 500 THEN 100 ELSE 0)
      + (IF msg.length > 1000 THEN 200 ELSE 0)
      + (IF msg.hasCode THEN 150 ELSE 0)
      + (IF msg.hasImages THEN 300 ELSE 0)

\* estimate(message)
estimate(c, id, msg) ==
    IF has(c, id) THEN get(c, id) ELSE ContentEstimate(msg)

\* a new cache; the messages have some content
InitCache ==
    /\ cache = EmptyMap
    /\ content \in [MessageIds -> CacheContents]
    /\ cStale = {}
    /\ cLastOp = << "new", 0, 0 >>
    /\ cBefore = 0

InitCacheSpec ==
    /\ InitCache
    /\ ExtraIdle
    /\ HookIdle /\ QueueIdle /\ WindowIdle /\ ListIdle /\ StreamIdle
    /\ CallersIdle

\* messageHeightCache.set(messageId, height)
Set(id, height) ==
    /\ cache' = set(cache, id, height)
    /\ cStale' = cStale \ {id}
    /\ cLastOp' = << "set", id, height >>
    /\ cBefore' = estimate(cache, id, content[id])
    /\ UNCHANGED content
    /\ UNCHANGED notCache

\* messageHeightCache.clear()
Clear ==
    /\ cache' = clear(cache)
    /\ cStale' = {}
    /\ cLastOp' = << "clear", 0, 0 >>
    /\ cBefore' = 0
    /\ UNCHANGED content
    /\ UNCHANGED notCache

\* the content of a message changes (streaming, edit); the cache is not told
ChangeContent(id, msg) ==
    /\ msg # content[id]
    /\ content' = [content EXCEPT ![id] = msg]
    /\ cStale' = IF has(cache, id) THEN cStale \cup {id} ELSE cStale
    /\ cLastOp' = << "content", id, 0 >>
    /\ cBefore' = 0
    /\ UNCHANGED cache
    /\ UNCHANGED notCache

NextCache ==
    \/ \E id \in MessageIds, height \in CacheHeights : Set(id, height)
    \/ Clear
    \/ \E id \in MessageIds, msg \in CacheContents : ChangeContent(id, msg)

SpecCache == InitCacheSpec /\ [][NextCache]_vars

\* C14: once the content of a message has changed after its height was set,
\* estimate returns the estimate computed from the new content, not the
\* stored height, until a new height is set.
C14_StaleHeightNotReturned ==
    \A id \in MessageIds :
        id \in cStale =>
            estimate(cache, id, content[id]) = ContentEstimate(content[id])

\* C15: a set with a height of 0 or less changes nothing: estimate and get
\* return for that message what they returned before the call.
C15_InvalidHeightIgnored ==
    (cLastOp[1] = "set" /\ cLastOp[3] <= 0) =>
        estimate(cache, cLastOp[2], content[cLastOp[2]]) = cBefore

\* ------------------------------------------------------------------------
\* migrateLocalStorageToIndexedDB
\* ------------------------------------------------------------------------

\* the app before any migration: spaces in localStorage, none in IndexedDB
InitMigration ==
    /\ migrationComplete = FALSE
    /\ lsSpaces \in SUBSET SpaceIds
    /\ dbSpaces = {}
    /\ run = [i \in Invocations |-> IdleRun]
    /\ mCopies = 0

InitMigrationSpec ==
    /\ InitMigration
    /\ BaseIdle /\ HeightsIdle /\ SpacesIdle /\ IntervalIdle /\ PoolIdle
    /\ MarkdownIdle

\* migrateLocalStorageToIndexedDB() up to its first await: return if the
\* flag is 'true', else call saveSpace for every space of localStorage
Migrate(i) ==
    /\ run[i].pc \in {"idle", "done"}
    /\ run' = [run EXCEPT ![i] =
                  IF migrationComplete
                     THEN [pc |-> "done", pending |-> {}, failed |-> FALSE,
                           lateStart |-> TRUE, wrote |-> FALSE]
                     ELSE [pc |-> "saving", pending |-> lsSpaces,
                           failed |-> FALSE, lateStart |-> FALSE,
                           wrote |-> FALSE]]
    /\ UNCHANGED << migrationComplete, lsSpaces, dbSpaces, mCopies >>
    /\ UNCHANGED notMigration

\* indexedDBService.saveSpace(space) of invocation i: db.put succeeds
SaveSpace(i, space) ==
    /\ run[i].pc = "saving"
    /\ space \in run[i].pending
    /\ dbSpaces' = dbSpaces \cup {space}
    /\ run' = [run EXCEPT ![i].pending = @ \ {space}, ![i].wrote = TRUE]
    /\ mCopies' = IF run[i].wrote THEN mCopies ELSE Sat(mCopies, MaxCount)
    /\ UNCHANGED << migrationComplete, lsSpaces >>
    /\ UNCHANGED notMigration

\* saveSpace of invocation i is rejected
SaveSpaceFails(i, space) ==
    /\ run[i].pc = "saving"
    /\ space \in run[i].pending
    /\ run' = [run EXCEPT ![i].pending = @ \ {space}, ![i].failed = TRUE]
    /\ UNCHANGED << migrationComplete, lsSpaces, dbSpaces, mCopies >>
    /\ UNCHANGED notMigration

\* after await Promise.all(...): set the flag, or throw if a save was
\* rejected
MigrationSettles(i) ==
    /\ run[i].pc = "saving"
    /\ run[i].pending = {}
    /\ migrationComplete' = (migrationComplete \/ ~run[i].failed)
    /\ run' = [run EXCEPT ![i].pc = "done"]
    /\ UNCHANGED << lsSpaces, dbSpaces, mCopies >>
    /\ UNCHANGED notMigration

NextMigration ==
    \/ \E i \in Invocations : Migrate(i)
    \/ \E i \in Invocations, space \in SpaceIds : SaveSpace(i, space)
    \/ \E i \in Invocations, space \in SpaceIds : SaveSpaceFails(i, space)
    \/ \E i \in Invocations : MigrationSettles(i)

SpecMigration == InitMigrationSpec /\ [][NextMigration]_vars

\* C24: at most one invocation copies spaces into IndexedDB, however the
\* invocations overlap; an invocation that starts after the flag is set
\* writes nothing; the flag is set only when every space has been saved.
C24_MigratesOnce ==
    /\ mCopies <= 1
    /\ \A i \in Invocations : run[i].lateStart => ~run[i].wrote
    /\ migrationComplete => lsSpaces \subseteq dbSpaces

\* ------------------------------------------------------------------------
\* SpacesProvider over IndexedDB
\* ------------------------------------------------------------------------

\* the save effect without `if (isLoading) return`
SaveEffectUnguarded(loading, list) == << list >>

\* the save effect, deps [spaces, isLoading]: the cleanup has cleared the
\* previous timeout; the new pending timeout
SaveEffect(loading, list) == IF loading THEN << >> ELSE << list >>

\* the store after Promise.all(list.map(saveSpace)) with the puts of the
\* spaces in `written` done
SaveAll(store, list, written) ==
    [id \in SpaceIds |->
        IF list[id] # 0 /\ id \in written THEN list[id] ELSE store[id]]

\* ids of the spaces of a list
Ids(list) == {id \in SpaceIds : list[id] # 0}

\* first render: no spaces, isLoading true, getSpaces pending; the save
\* effect has returned early
InitSpaces ==
    /\ spaces = NoSpaces
    /\ isLoading = TRUE
    /\ db \in [SpaceIds -> 0 .. 1]
    /\ lsFallback \in {<< >>} \cup {<< list >> : list \in [SpaceIds -> 0 .. 1]}
    /\ saveTimer = SaveEffect(isLoading, spaces)
    /\ sLoaded = "pending"
    /\ sLastSave = "none"
    /\ sDb0 = db

InitSpacesSpec ==
    /\ InitSpaces
    /\ BaseIdle /\ HeightsIdle /\ MigrationIdle /\ IntervalIdle /\ PoolIdle
    /\ MarkdownIdle

\* getSpaces resolves: setSpaces(savedSpaces), setIsLoading(false), and the
\* save effect runs
LoadSpaces ==
    /\ isLoading
    /\ spaces' = db
    /\ isLoading' = FALSE
    /\ saveTimer' = SaveEffect(isLoading', spaces')
    /\ sLoaded' = "ok"
    /\ UNCHANGED << db, lsFallback, sLastSave, sDb0 >>
    /\ UNCHANGED notSpaces

\* getSpaces is rejected: the localStorage fallback if there is one,
\* setIsLoading(false), and the save effect runs
LoadSpacesFails ==
    /\ isLoading
    /\ spaces' = IF lsFallback # << >> THEN lsFallback[1] ELSE spaces
    /\ isLoading' = FALSE
    /\ saveTimer' = SaveEffect(isLoading', spaces')
    /\ sLoaded' = "failed"
    /\ UNCHANGED << db, lsFallback, sLastSave, sDb0 >>
    /\ UNCHANGED notSpaces

\* setSpaces with a space added (version 1), updated (next version) or
\* removed (0); the save effect runs
ChangeSpaces(id, version) ==
    /\ version # spaces[id]
    /\ version \in {0, 1, spaces[id] + 1}
    /\ spaces[id] = 0 => version = 1
    /\ spaces' = [spaces EXCEPT ![id] = version]
    /\ saveTimer' = SaveEffect(isLoading, spaces')
    /\ UNCHANGED << isLoading, db, lsFallback, sLoaded, sLastSave, sDb0 >>
    /\ UNCHANGED notSpaces

\* the save timeout fires and every saveSpace succeeds
SaveSpaces ==
    /\ saveTimer # << >>
    /\ db' = SaveAll(db, saveTimer[1], SpaceIds)
    /\ saveTimer' = << >>
    /\ sLastSave' = "ok"
    /\ UNCHANGED << spaces, isLoading, lsFallback, sLoaded, sDb0 >>
    /\ UNCHANGED notSpaces

\* the save timeout fires and some saveSpace is rejected: the error is
\* logged
SaveSpacesFails ==
    /\ saveTimer # << >>
    /\ \E written \in SUBSET Ids(saveTimer[1]) :
          /\ written # Ids(saveTimer[1])
          /\ db' = SaveAll(db, saveTimer[1], written)
    /\ saveTimer' = << >>
    /\ sLastSave' = "failed"
    /\ UNCHANGED << spaces, isLoading, lsFallback, sLoaded, sDb0 >>
    /\ UNCHANGED notSpaces

NextSpaces ==
    \/ LoadSpaces
    \/ LoadSpacesFails
    \/ \E id \in SpaceIds, version \in 0 .. MaxVersion : ChangeSpaces(id, version)
    \/ SaveSpaces
    \/ SaveSpacesFails

SpecSpaces == InitSpacesSpec /\ [][NextSpaces]_vars

\* C25: while isLoading is true no save is scheduled and IndexedDB is not
\* written; no stored space is ever lost to a save of the empty initial
\* list; a scheduled save holds the list that is in memory after the load.
C25_NoSaveBeforeLoad ==
    /\ isLoading => (saveTimer = << >> /\ db = sDb0 /\ sLastSave = "none")
    /\ Ids(sDb0) \subseteq Ids(db)
    /\ saveTimer # << >> => (sLoaded # "pending" /\ saveTimer[1] = spaces)

\* the list was changed while the stored spaces were still loading
C25_Witness ==
    /\ isLoading
    /\ spaces # NoSpaces
    /\ Ids(db) # {}
    /\ saveTimer = << >>

\* C28: after a load, once a save has completed and none is pending, the
\* spaces in IndexedDB are the spaces in memory.
C28_StoreEqualsMemory ==
    (sLoaded = "ok" /\ saveTimer = << >> /\ sLastSave = "ok") => db = spaces

\* ------------------------------------------------------------------------
\* useInterval
\* ------------------------------------------------------------------------

\* an effect whose cleanup does not clear the interval
RunCleanupLeaking(active, cleanup) == active

\* the cleanup of the interval effect: clearInterval(id)
RunCleanup(active, cleanup) ==
    IF cleanup = << >> THEN active
    ELSE {t \in active : t.id # cleanup[1]}

\* the interval effect ran with (d, imm) after its previous cleanup:
\* nothing for null, else the immediate call and setInterval
RunEffect(d, imm) ==
    LET cleared == RunCleanup(intervals, cleanupId)
    IN  IF d = << >>
           THEN /\ intervals' = cleared
                /\ cleanupId' = << >>
                /\ UNCHANGED << nextId, uCalls >>
           ELSE /\ intervals' = cleared \cup {[id |-> nextId, delay |-> d]}
                /\ cleanupId' = << nextId >>
                /\ nextId' = nextId + 1
                /\ uCalls' = IF imm THEN Sat(uCalls, MaxCount) ELSE uCalls

\* the component before its first render
InitInterval ==
    /\ uMounted = FALSE
    /\ delay = << >>
    /\ immediate = FALSE
    /\ intervals = {}
    /\ cleanupId = << >>
    /\ nextId = 1
    /\ uCalls = 0
    /\ uEvent = "init"

InitIntervalSpec ==
    /\ InitInterval
    /\ BaseIdle /\ HeightsIdle /\ MigrationIdle /\ SpacesIdle /\ PoolIdle
    /\ MarkdownIdle

\* the component mounts with useInterval(callback, d, imm)
MountInterval(d, imm) ==
    /\ ~uMounted
    /\ nextId <= MaxIntervals
    /\ uMounted' = TRUE
    /\ delay' = d
    /\ immediate' = imm
    /\ RunEffect(d, imm)
    /\ uEvent' = "mount"
    /\ UNCHANGED notInterval

\* the component renders again with useInterval(callback, d, imm): the
\* interval effect runs if delay or immediate changed
RenderInterval(d, imm) ==
    /\ uMounted
    /\ nextId <= MaxIntervals
    /\ delay' = d
    /\ immediate' = imm
    /\ IF d # delay \/ imm # immediate
          THEN RunEffect(d, imm)
          ELSE UNCHANGED << intervals, cleanupId, nextId, uCalls >>
    /\ uEvent' = IF d # delay THEN "delay" ELSE "render"
    /\ UNCHANGED uMounted
    /\ UNCHANGED notInterval

\* an active interval fires
IntervalFires ==
    /\ \E t \in intervals : TRUE
    /\ uCalls' = Sat(uCalls, MaxCount)
    /\ uEvent' = "fire"
    /\ UNCHANGED << uMounted, delay, immediate, intervals, cleanupId,
                    nextId >>
    /\ UNCHANGED notInterval

\* the component unmounts: the cleanup runs
UnmountInterval ==
    /\ uMounted
    /\ uMounted' = FALSE
    /\ intervals' = RunCleanup(intervals, cleanupId)
    /\ cleanupId' = << >>
    /\ uEvent' = "unmount"
    /\ UNCHANGED << delay, immediate, nextId, uCalls >>
    /\ UNCHANGED notInterval

NextInterval ==
    \/ \E d \in Delays, imm \in BOOLEAN : MountInterval(d, imm)
    \/ \E d \in Delays, imm \in BOOLEAN : RenderInterval(d, imm)
    \/ IntervalFires
    \/ UnmountInterval

SpecInterval == InitIntervalSpec /\ [][NextInterval]_vars

\* C26: a useInterval instance has at most one active interval, and it has
\* the current delay; with delay null and after unmount it has none.
C26_OneInterval ==
    /\ Cardinality(intervals) <= 1
    /\ \A t \in intervals : uMounted /\ t.delay = delay
    /\ (uMounted /\ delay = << >>) => intervals = {}
    /\ ~uMounted => intervals = {}
    /\ (uMounted /\ delay # << >>) => intervals # {}

\* the delay has changed and the interval set up for the new delay is the
\* only one
C26_Witness ==
    /\ uEvent = "delay"
    /\ \E t \in intervals : t.id > 1 /\ t.delay = delay
    /\ Cardinality(intervals) = 1

\* ------------------------------------------------------------------------
\* WorkerPool
\* ------------------------------------------------------------------------

\* processQueue(): while a task waits and a worker is available, shift both,
\* store the task on the worker and post it
RECURSIVE processQueue(_)
processQueue(p) ==
    IF Len(p.taskQueue) > 0 /\ Len(p.availableWorkers) > 0
       THEN LET task == Head(p.taskQueue)
                worker == Head(p.availableWorkers)
            IN  processQueue(
                  [taskQueue |-> Tail(p.taskQueue),
                   availableWorkers |-> Tail(p.availableWorkers),
                   currentTask |-> [p.currentTask EXCEPT
                                       ![worker] = << task >>],
                   inbox |-> [p.inbox EXCEPT ![worker] = Append(@, task)]])
       ELSE p

\* the pool's state after processQueue() on the given fields
Processed(tasks, available, current) ==
    LET p == processQueue([taskQueue |-> tasks, availableWorkers |-> available,
                           currentTask |-> current, inbox |-> inbox])
    IN  /\ taskQueue' = p.taskQueue
        /\ availableWorkers' = p.availableWorkers
        /\ currentTask' = p.currentTask
        /\ inbox' = p.inbox

\* new WorkerPool(workerPath, poolSize)
InitPool ==
    /\ workers = Workers
    /\ availableWorkers = [i \in 1 .. PoolSize |-> i]
    /\ taskQueue = << >>
    /\ taskId = 0
    /\ currentTask = [w \in Workers |-> << >>]
    /\ inbox = [w \in Workers |-> << >>]
    /\ settled = [t \in Tasks |-> 0]
    /\ answeredBy = [t \in Tasks |-> -1]

InitPoolSpec ==
    /\ InitPool
    /\ BaseIdle /\ HeightsIdle /\ MigrationIdle /\ SpacesIdle /\ IntervalIdle
    /\ MarkdownIdle

\* execute(type, content): a new task is queued, processQueue()
Execute ==
    /\ taskId < MaxTasks
    /\ taskId' = taskId + 1
    /\ Processed(Append(taskQueue, taskId), availableWorkers, currentTask)
    /\ UNCHANGED << workers, settled, answeredBy >>
    /\ UNCHANGED notPool

\* a worker answers its oldest message: handleWorkerMessage(worker,
\* response) settles the task stored on the worker, returns the worker to
\* the pool and calls processQueue()
WorkerResponds(worker) ==
    /\ inbox[worker] # << >>
    /\ LET response == Head(inbox[worker])
           task == currentTask[worker]
           p == processQueue(
                  [taskQueue |-> taskQueue,
                   availableWorkers |-> Append(availableWorkers, worker),
                   currentTask |-> [currentTask EXCEPT ![worker] = << >>],
                   inbox |-> [inbox EXCEPT ![worker] = Tail(@)]])
       IN  /\ settled' = IF task # << >>
                            THEN [settled EXCEPT ![task[1]] = Sat(@, MaxCount)]
                            ELSE settled
           /\ answeredBy' = IF task # << >>
                               THEN [answeredBy EXCEPT ![task[1]] = response]
                               ELSE answeredBy
           /\ taskQueue' = p.taskQueue
           /\ availableWorkers' = p.availableWorkers
           /\ currentTask' = p.currentTask
           /\ inbox' = p.inbox
    /\ UNCHANGED << workers, taskId >>
    /\ UNCHANGED notPool

\* a worker throws while it handles its oldest message: worker.onerror logs
\* the error, no response is posted
WorkerErrors(worker) ==
    /\ inbox[worker] # << >>
    /\ inbox' = [inbox EXCEPT ![worker] = Tail(@)]
    /\ UNCHANGED << workers, availableWorkers, taskQueue, taskId, currentTask,
                    settled, answeredBy >>
    /\ UNCHANGED notPool

\* terminate(): the workers are terminated, the three arrays emptied
TerminatePool ==
    /\ workers # {}
    /\ workers' = {}
    /\ availableWorkers' = << >>
    /\ taskQueue' = << >>
    /\ inbox' = [w \in Workers |-> << >>]
    /\ UNCHANGED << taskId, currentTask, settled, answeredBy >>
    /\ UNCHANGED notPool

NextPool ==
    \/ Execute
    \/ \E worker \in Workers : WorkerResponds(worker)
    \/ \E worker \in Workers : WorkerErrors(worker)
    \/ TerminatePool

SpecPool == InitPoolSpec /\ [][NextPool]_vars

\* a task that has not settled is still on its way to a response: a worker
\* is working on it, or it waits in the queue while some worker is working
CanSettle(task) ==
    \/ \E w \in Workers : \E i \in DOMAIN inbox[w] : inbox[w][i] = task
    \/ /\ \E i \in DOMAIN taskQueue : taskQueue[i] = task
       /\ \E w \in Workers : inbox[w] # << >>

\* C29: every task settles exactly once, with the response to itself:
\* no task settles twice or with another task's response, a task that has
\* not settled can still settle, and no worker holds two tasks.
C29_TasksSettleOnce ==
    /\ \A task \in 0 .. taskId - 1 :
          /\ settled[task] <= 1
          /\ settled[task] = 1 => answeredBy[task] = task
          /\ settled[task] = 0 => CanSettle(task)
    /\ \A w \in Workers : Len(inbox[w]) <= 1

\* ------------------------------------------------------------------------
\* MarkdownRenderer and markdownCache
\* ------------------------------------------------------------------------

\* processMarkdown(content): the HTML of the content
processMarkdown(text) == "<p>" \o text \o "</p>"

\* `${messageId}-${content.length}`
CacheKey(messageId, text) == messageId \o "-" \o ToString(Len(text))

\* markdownCache.has(key)
CacheHas(map, key) == \E i \in DOMAIN map : map[i][1] = key

\* markdownCache.get(key) of a key the Map has
CacheGet(map, key) ==
    LET i == CHOOSE j \in DOMAIN map : map[j][1] = key
    IN  map[i][2]

\* the Map after the size check and markdownCache.set(key, value) of a key
\* it does not have
CacheSet(map, key, value) ==
    Append(IF Len(map) > cacheLimit THEN Tail(map) ELSE map, << key, value >>)

\* the useMemo callback: the value returned and the Map after it
Memo(map, messageId, text) ==
    LET key == CacheKey(messageId, text)
    IN  IF CacheHas(map, key)
           THEN [value |-> CacheGet(map, key), cache |-> map]
           ELSE [value |-> processMarkdown(text),
                 cache |-> CacheSet(map, key, processMarkdown(text))]

\* the module is loaded, no renderer is mounted
InitMarkdown ==
    /\ markdownCache = << >>
    /\ mdProps = << >>
    /\ processedContent = ""

InitMarkdownSpec ==
    /\ InitMarkdown
    /\ BaseIdle /\ HeightsIdle /\ MigrationIdle /\ SpacesIdle /\ IntervalIdle
    /\ PoolIdle

\* MarkdownRenderer renders with (content, messageId): useMemo recomputes
\* on the first render and when content or messageId changed
RenderMarkdown(messageId, text) ==
    /\ mdProps # << messageId, text >>
    /\ LET m == Memo(markdownCache, messageId, text)
       IN  /\ processedContent' = m.value
           /\ markdownCache' = m.cache
    /\ mdProps' = << messageId, text >>
    /\ UNCHANGED notMarkdown

\* the renderer unmounts; the cache is module state and stays
UnmountMarkdown ==
    /\ mdProps # << >>
    /\ mdProps' = << >>
    /\ UNCHANGED << markdownCache, processedContent >>
    /\ UNCHANGED notMarkdown

NextMarkdown ==
    \/ \E messageId \in RenderedIds, text \in MarkdownContents :
          RenderMarkdown(messageId, text)
    \/ UnmountMarkdown

SpecMarkdown == InitMarkdownSpec /\ [][NextMarkdown]_vars

\* C30: the value MarkdownRenderer returns for (messageId, content) is
\* processMarkdown of the current content, computed or cached.
C30_MarkdownCacheCoherent ==
    mdProps # << >> => processedContent = processMarkdown(mdProps[2])

\* C23: the height the list holds for a row is the height measured for the
\* message (by id) now in that row, and a row whose message was never
\* measured holds none: heights follow the message across unmounts, appends
\* and prepends.
C23_HeightsFollowIdentity ==
    \A i \in 0 .. Len(messages) - 1 :
        rowHeights[i] = IF idHeight[messages[i + 1]] = 0
                           THEN -1
                           ELSE idHeight[messages[i + 1]]

\* C22: for a message without a cached height, estimate returns 200, plus
\* 100 for a content longer than 500 characters, plus 200 for one longer
\* than 1000, plus 150 for a code fence, plus 300 for an image part; the
\* result lies in 200 .. 950, does not decrease when only the length grows,
\* and is 200 for a message without content and parts.
C22_EstimateFormula ==
    /\ \A id \in MessageIds :
          ~has(cache, id) =>
              LET msg == content[id]
                  e == estimate(cache, id, msg)
              IN  /\ e = 200 + (IF msg.length > 500 THEN 100 ELSE 0)
                            + (IF msg.length > 1000 THEN 200 ELSE 0)
                            + (IF msg.hasCode THEN 150 ELSE 0)
                            + (IF msg.hasImages THEN 300 ELSE 0)
                  /\ e \in 200 .. 950
                  /\ msg = MissingContent => e = 200
                  /\ \A longer \in CacheContents :
                        ( /\ longer.length >= msg.length
                          /\ longer.hasCode = msg.hasCode
                          /\ longer.hasImages = msg.hasImages )
                        => estimate(cache, id, longer) >= e

\* after a set for one message, the other has no cached height and the
\* largest estimate; some message has exactly 500 characters
C22_Witness ==
    /\ cLastOp[1] = "set"
    /\ \E id \in MessageIds :
          /\ ~has(cache, id)
          /\ content[id].length > 1000
          /\ content[id].hasCode /\ content[id].hasImages
          /\ estimate(cache, id, content[id]) = 950
    /\ \E id \in MessageIds : content[id].length = 500

\* the streaming row, while a message streams
StreamingRow == StreamingIndex(messages, isStreaming, currentMessageId)

\* C13: while a message streams, its row is among the rendered rows at every
\* scroll position.
C13_StreamingRowMounted ==
    isStreaming => StreamingRow \in mountedRows

\* C13 (amended): while a message streams, its row is rendered exactly when
\* it is no more than overscanCount rows past the rows that meet the
\* viewport; while it is rendered, its measured height is the height of its
\* content.
C13_StreamingRowMountedInBand ==
    isStreaming =>
        /\ StreamingRow \in mountedRows <=>
               StreamingRow <= computeWindow(Len(messages),
                                             RowSizes(messages, rowHeights),
                                             scrollOffset, listHeight,
                                             0).endIndex + overscanCount
        /\ StreamingRow \in mountedRows =>
               rowHeights[StreamingRow] = streamHeight

\* the streaming row has been scrolled out of the rendered rows and a chunk
\* has grown its content since
C13_Witness ==
    /\ isStreaming
    /\ StreamingRow \notin mountedRows
    /\ lEvent = "chunk"
    /\ rowHeights[StreamingRow] # streamHeight

====
